---- MODULE Spec2Model ----
(***************************************************************************)
(* A model of the DeepL MCP server (src/src/index.ts): the start-up of the *)
(* process, the ListTools and CallTool request handlers, the two tool      *)
(* implementations with their zod input schemas, the upstream HTTP         *)
(* exchange they await, and the centralised error handler.                 *)
(*                                                                         *)
(* JavaScript values are tagged records [t |-> <typeof>, v |-> <payload>]. *)
(* Ordinary strings are TLA+ strings; the text of a JSON document is a     *)
(* sequence of one-character strings, so that JSON.stringify and           *)
(* JSON.parse are computed character by character.                         *)
(***************************************************************************)
EXTENDS Integers, Sequences, FiniteSets, TLC

\* ------------------------------------------------------------------ bounds

\* Invocations the transport may have in flight at the same time.
MaxInv == 2
\* Longest `text` array a caller sends.
MaxTextLen == 2

\* --------------------------------------------------------------- JS values

Undefined == [t |-> "undefined"]
Null == [t |-> "null"]
Num(n) == [t |-> "number", v |-> n]
Str(s) == [t |-> "string", v |-> s]
Arr(s) == [t |-> "array", v |-> s]

\* A tool-call argument mapping; a key that is not present reads as Undefined.
Obj(text, target_lang, source_lang, type, extra) ==
  [t |-> "object", text |-> text, target_lang |-> target_lang,
   source_lang |-> source_lang, type |-> type, extra |-> extra]

\* JavaScript truthiness, as used by `!API_KEY`, `a && b`, `a || b`, `if (a)`.
Truthy(x) ==
  CASE x.t = "undefined" -> FALSE
    [] x.t = "null" -> FALSE
    [] x.t = "string" -> x.v # ""
    [] x.t = "number" -> x.v # 0
    [] OTHER -> TRUE

\* ------------------------------------------------------------- zod schemas

\* One entry of ZodError.errors. `keys` is the order JSON.stringify writes the
\* properties in; the issue's further properties (expected, received, minimum)
\* are left out.
Issue(code, path, message) ==
  [t |-> "object", keys |-> <<"code", "path", "message">>,
   code |-> Str(code), path |-> Arr(path), message |-> Str(message)]

\* z.string() applied to the value at `path`.
ZString(x, path) ==
  IF x.t = "string" THEN <<>>
  ELSE <<Issue("invalid_type", path,
               IF x.t = "undefined" THEN "Required"
               ELSE "Expected string, received " \o x.t)>>

RECURSIVE ZElements(_, _, _)
\* The issues of the elements i..Len(s) of an array checked by z.string().
ZElements(s, i, path) ==
  IF i > Len(s) THEN <<>>
  ELSE ZString(s[i], Append(path, Num(i - 1))) \o ZElements(s, i + 1, path)

\* The array schema with the .min(1) left off: an empty array passes.
ZStringArrayNoMin(x, path) ==
  IF x.t # "array"
  THEN <<Issue("invalid_type", path,
               IF x.t = "undefined" THEN "Required"
               ELSE "Expected array, received " \o x.t)>>
  ELSE ZElements(x.v, 1, path)

\* z.array(z.string()).min(1, "The 'text' array cannot be empty.")
ZStringArrayMin1(x, path) ==
  IF x.t # "array"
  THEN <<Issue("invalid_type", path,
               IF x.t = "undefined" THEN "Required"
               ELSE "Expected array, received " \o x.t)>>
  ELSE (IF Len(x.v) < 1
        THEN <<Issue("too_small", path, "The 'text' array cannot be empty.")>>
        ELSE <<>>)
       \o ZElements(x.v, 1, path)

\* z.string().optional()
ZOptionalString(x, path) == IF x.t = "undefined" THEN <<>> ELSE ZString(x, path)

\* z.enum(['source', 'target']).optional()
ZOptionalTypeEnum(x, path) ==
  IF x.t = "undefined" THEN <<>>
  ELSE IF x.t # "string"
  THEN <<Issue("invalid_type", path,
               "Expected 'source' | 'target', received " \o x.t)>>
  ELSE IF x.v \in {"source", "target"} THEN <<>>
  ELSE <<Issue("invalid_enum_value", path, "Invalid enum value")>>

\* z.object(...) applied to something that is not an object.
ZNotObject(x) ==
  <<Issue("invalid_type", <<>>,
          IF x.t = "undefined" THEN "Required"
          ELSE "Expected object, received " \o x.t)>>

\* TranslateTextInputSchema.parse(args): the issues, empty when args are valid.
TranslateTextIssues(args) ==
  IF args.t # "object" THEN ZNotObject(args)
  ELSE ZStringArrayMin1(args.text, <<Str("text")>>)
       \o ZString(args.target_lang, <<Str("target_lang")>>)
       \o ZOptionalString(args.source_lang, <<Str("source_lang")>>)

\* The value TranslateTextInputSchema.parse returns (unknown keys stripped).
TranslateTextInputSchema(args) ==
  [text |-> args.text, target_lang |-> args.target_lang,
   source_lang |-> args.source_lang]

\* ListLanguagesInputSchema.parse(args): the issues, empty when args are valid.
ListLanguagesIssues(args) ==
  IF args.t # "object" THEN ZNotObject(args)
  ELSE ZOptionalTypeEnum(args.type, <<Str("type")>>)

\* The value ListLanguagesInputSchema.parse returns (unknown keys stripped).
ListLanguagesInputSchema(args) == [type |-> args.type]

\* ------------------------------------------------------------------ errors

\* new McpError(code, message, data). ErrorCode members are kept by name.
McpError(code, message, data) ==
  [kind |-> "McpError", code |-> code, message |-> message, data |-> data]

\* The ZodError thrown by a failed Schema.parse.
ZodError(errors) == [kind |-> "ZodError", errors |-> Arr(errors)]

\* The error axios rejects with. `response` is Undefined when no response
\* arrived (a network failure), else HttpResponse(status, data).
AxiosError(message, response) ==
  [kind |-> "AxiosError", message |-> message, response |-> response]

HttpResponse(status, data) == [t |-> "object", status |-> status, data |-> data]

\* The body of an upstream error response that is a JSON object.
ErrorBody(message) == [t |-> "object", keys |-> <<"message">>, message |-> message]

\* Any other thrown Error.
PlainError(message) == [kind |-> "Error", message |-> message]

\* `${x}` inside a template literal.
TemplateStr(x) ==
  CASE x.t = "undefined" -> "undefined"
    [] x.t = "null" -> "null"
    [] x.t = "number" -> ToString(x.v)
    [] x.t = "string" -> x.v
    [] OTHER -> "[object Object]"

RECURSIVE CompactJSON(_), CompactItems(_, _), CompactProps(_, _, _)
\* JSON.stringify(x) without indentation, for the values error data is made
\* of. The strings met here hold no character JSON escapes.
CompactJSON(x) ==
  CASE x.t = "null" -> "null"
    [] x.t = "number" -> ToString(x.v)
    [] x.t = "string" -> "\"" \o x.v \o "\""
    [] x.t = "array" -> "[" \o CompactItems(x.v, 1) \o "]"
    [] x.t = "object" -> "{" \o CompactProps(x, 1, FALSE) \o "}"
    [] OTHER -> "null"

CompactItems(s, i) ==
  IF i > Len(s) THEN ""
  ELSE (IF i > 1 THEN "," ELSE "") \o CompactJSON(s[i]) \o CompactItems(s, i + 1)

\* The properties keys[i..] of x; a property whose value is undefined is skipped.
CompactProps(x, i, written) ==
  IF i > Len(x.keys) THEN ""
  ELSE IF x[x.keys[i]].t = "undefined" THEN CompactProps(x, i + 1, written)
  ELSE (IF written THEN "," ELSE "")
       \o "\"" \o x.keys[i] \o "\":" \o CompactJSON(x[x.keys[i]])
       \o CompactProps(x, i + 1, TRUE)

\* data?.message in handleToolError: a property read that tolerates
\* undefined and null; a string has no such property.
OptionalMessage(data) == IF data.t = "object" THEN data.message ELSE Undefined

\* The status-to-code statements with the client range opened one late
\* (status > 401): a 401 keeps the default code.
AxiosErrorCodeFrom402(status) ==
  LET c0 == "InternalError"
      c1 == IF status.t = "number" /\ status.v = 400 THEN "InvalidParams" ELSE c0
      c2 == IF Truthy(status) /\ status.v > 401 /\ status.v < 500 /\ status.v # 400
            THEN "InvalidRequest" ELSE c1
      c3 == IF Truthy(status) /\ status.v >= 500 THEN "InternalError" ELSE c2
  IN c3

\* The status-to-code statements of handleToolError, in their order.
AxiosErrorCode(status) ==
  LET c0 == "InternalError"
      c1 == IF status.t = "number" /\ status.v = 400 THEN "InvalidParams" ELSE c0
      c2 == IF Truthy(status) /\ status.v >= 401 /\ status.v < 500 /\ status.v # 400
            THEN "InvalidRequest" ELSE c1
      c3 == IF Truthy(status) /\ status.v >= 500 THEN "InternalError" ELSE c2
  IN c3

\* The McpError handleToolError settles on for a caught error.
ToMcpError(error) ==
  CASE error.kind = "McpError" -> error
    [] error.kind = "ZodError" ->
         McpError("InvalidParams", "Input validation failed", error.errors)
    [] error.kind = "AxiosError" ->
         LET status == IF error.response.t = "undefined" THEN Undefined
                       ELSE Num(error.response.status)
             data == IF error.response.t = "undefined" THEN Undefined
                     ELSE error.response.data
             dm == OptionalMessage(data)
             message == IF Truthy(dm) THEN dm ELSE Str(error.message)
         IN McpError(AxiosErrorCode(status),
                     "DeepL API Error (" \o TemplateStr(status) \o "): "
                       \o TemplateStr(message),
                     data)
    [] OTHER ->
         McpError("InternalError",
                  "An unexpected error occurred: " \o error.message, Undefined)

\* handleToolError(error): the tool response returned for a caught error.
handleToolError(error) ==
  LET mcpError == ToMcpError(error)
      errorContent ==
        [type |-> "text",
         text |-> "Error: " \o mcpError.message
                  \o (IF Truthy(mcpError.data)
                      THEN "\nDetails: " \o CompactJSON(mcpError.data)
                      ELSE "")]
  IN [content |-> <<errorContent>>, isError |-> TRUE, errorCode |-> mcpError.code]

\* ---------------------------------------------------------- JSON documents

\* The values of an upstream success body. A string holds its characters, an
\* object its properties in order, each <<key characters, value>>.
JStr(cs) == [t |-> "string", cs |-> cs]
JBool(b) == [t |-> "boolean", b |-> b]
JArr(items) == [t |-> "array", items |-> items]
JObj(props) == [t |-> "object", props |-> props]

RECURSIVE PropFrom(_, _, _)
PropFrom(props, i, key) ==
  IF i > Len(props) THEN Undefined
  ELSE IF props[i][1] = key THEN props[i][2]
  ELSE PropFrom(props, i + 1, key)

\* x.key, Undefined when x has no such property.
Prop(x, key) == PropFrom(x.props, 1, key)

RECURSIVE Spaces(_)
Spaces(n) == IF n <= 0 THEN <<>> ELSE <<" ">> \o Spaces(n - 1)

\* A serialiser that writes every character of a string as it is.
EscapeCharNone(c) == <<c>>

\* The characters JSON.stringify writes for one character of a string.
EscapeChar(c) ==
  CASE c = "\"" -> <<"\\", "\"">>
    [] c = "\\" -> <<"\\", "\\">>
    [] c = "\n" -> <<"\\", "n">>
    [] OTHER -> <<c>>

RECURSIVE Escape(_, _)
Escape(cs, i) == IF i > Len(cs) THEN <<>> ELSE EscapeChar(cs[i]) \o Escape(cs, i + 1)

Quote(cs) == <<"\"">> \o Escape(cs, 1) \o <<"\"">>

RECURSIVE Pretty(_, _, _), PrettyItems(_, _, _, _), PrettyProps(_, _, _, _)
\* The text of x at indentation `ind`, each nesting level indented by `gap`.
Pretty(x, ind, gap) ==
  CASE x.t = "string" -> Quote(x.cs)
    [] x.t = "boolean" ->
         IF x.b THEN <<"t", "r", "u", "e">> ELSE <<"f", "a", "l", "s", "e">>
    [] x.t = "array" ->
         IF x.items = <<>> THEN <<"[", "]">>
         ELSE <<"[", "\n">> \o PrettyItems(x.items, 1, ind + gap, gap)
              \o <<"\n">> \o Spaces(ind) \o <<"]">>
    [] x.t = "object" ->
         IF x.props = <<>> THEN <<"{", "}">>
         ELSE <<"{", "\n">> \o PrettyProps(x.props, 1, ind + gap, gap)
              \o <<"\n">> \o Spaces(ind) \o <<"}">>
    [] OTHER -> <<"n", "u", "l", "l">>

PrettyItems(s, i, ind, gap) ==
  Spaces(ind) \o Pretty(s[i], ind, gap)
  \o (IF i < Len(s) THEN <<",", "\n">> \o PrettyItems(s, i + 1, ind, gap) ELSE <<>>)

PrettyProps(s, i, ind, gap) ==
  Spaces(ind) \o Quote(s[i][1]) \o <<":", " ">> \o Pretty(s[i][2], ind, gap)
  \o (IF i < Len(s) THEN <<",", "\n">> \o PrettyProps(s, i + 1, ind, gap) ELSE <<>>)

\* JSON.stringify(x, null, gap): undefined for undefined, else the text.
JSONStringify(x, gap) == IF x.t = "undefined" THEN Undefined ELSE Pretty(x, 0, gap)

\* The reader of a content block: JSON.parse, as a caller applies it to the
\* text it receives. What a failed parse step returns, and what it throws.
ParseFail == [ok |-> FALSE]
SyntaxError == [t |-> "SyntaxError"]

RECURSIVE SkipWs(_, _)
SkipWs(s, i) ==
  IF i <= Len(s) /\ s[i] \in {" ", "\n"} THEN SkipWs(s, i + 1) ELSE i

\* Whether s holds the characters of `word` from position i on.
HasWord(s, i, word) ==
  /\ i + Len(word) - 1 <= Len(s)
  /\ \A k \in 1..Len(word) : s[i + k - 1] = word[k]

RECURSIVE ParseValue(_, _), ParseString(_, _, _), ParseArray(_, _, _), ParseObject(_, _, _)
\* The characters after an opening quote, up to the closing one.
ParseString(s, i, acc) ==
  IF i > Len(s) THEN ParseFail
  ELSE IF s[i] = "\"" THEN [ok |-> TRUE, v |-> JStr(acc), next |-> i + 1]
  ELSE IF s[i] = "\n" THEN ParseFail
  ELSE IF s[i] = "\\"
  THEN IF i + 1 > Len(s) THEN ParseFail
       ELSE IF s[i + 1] = "n" THEN ParseString(s, i + 2, Append(acc, "\n"))
       ELSE IF s[i + 1] \in {"\"", "\\"}
       THEN ParseString(s, i + 2, Append(acc, s[i + 1]))
       ELSE ParseFail
  ELSE ParseString(s, i + 1, Append(acc, s[i]))

\* The elements after an opening bracket (or after a comma, acc not empty).
ParseArray(s, i, acc) ==
  LET j == SkipWs(s, i) IN
  IF j > Len(s) THEN ParseFail
  ELSE IF s[j] = "]" /\ acc = <<>> THEN [ok |-> TRUE, v |-> JArr(acc), next |-> j + 1]
  ELSE LET r == ParseValue(s, j) IN
       IF ~r.ok THEN ParseFail
       ELSE LET k == SkipWs(s, r.next) IN
            IF k > Len(s) THEN ParseFail
            ELSE IF s[k] = "," THEN ParseArray(s, k + 1, Append(acc, r.v))
            ELSE IF s[k] = "]"
            THEN [ok |-> TRUE, v |-> JArr(Append(acc, r.v)), next |-> k + 1]
            ELSE ParseFail

\* The properties after an opening brace (or after a comma, acc not empty).
ParseObject(s, i, acc) ==
  LET j == SkipWs(s, i) IN
  IF j > Len(s) THEN ParseFail
  ELSE IF s[j] = "}" /\ acc = <<>> THEN [ok |-> TRUE, v |-> JObj(acc), next |-> j + 1]
  ELSE IF s[j] # "\"" THEN ParseFail
  ELSE LET key == ParseString(s, j + 1, <<>>) IN
       IF ~key.ok THEN ParseFail
       ELSE LET c == SkipWs(s, key.next) IN
            IF c > Len(s) \/ s[c] # ":" THEN ParseFail
            ELSE LET r == ParseValue(s, c + 1) IN
                 IF ~r.ok THEN ParseFail
                 ELSE LET k == SkipWs(s, r.next)
                          props == Append(acc, <<key.v.cs, r.v>>)
                      IN IF k > Len(s) THEN ParseFail
                         ELSE IF s[k] = "," THEN ParseObject(s, k + 1, props)
                         ELSE IF s[k] = "}"
                         THEN [ok |-> TRUE, v |-> JObj(props), next |-> k + 1]
                         ELSE ParseFail

ParseValue(s, i) ==
  LET j == SkipWs(s, i) IN
  IF j > Len(s) THEN ParseFail
  ELSE IF s[j] = "\"" THEN ParseString(s, j + 1, <<>>)
  ELSE IF s[j] = "[" THEN ParseArray(s, j + 1, <<>>)
  ELSE IF s[j] = "{" THEN ParseObject(s, j + 1, <<>>)
  ELSE IF HasWord(s, j, <<"t", "r", "u", "e">>)
  THEN [ok |-> TRUE, v |-> JBool(TRUE), next |-> j + 4]
  ELSE IF HasWord(s, j, <<"f", "a", "l", "s", "e">>)
  THEN [ok |-> TRUE, v |-> JBool(FALSE), next |-> j + 5]
  ELSE ParseFail

\* JSON.parse(s): the value, or SyntaxError when s is not one JSON text.
JSONParse(s) ==
  LET r == ParseValue(s, 1) IN
  IF r.ok /\ SkipWs(s, r.next) > Len(s) THEN r.v ELSE SyntaxError

\* ------------------------------------------------------------------- state

VARIABLES
  apiKey,   \* process.env.DEEPL_API_KEY: Undefined when the variable is not set
  pc,       \* where the process is: boot, connecting, serving, closing, exited
  exit,     \* Undefined while the process runs, else ProcessExit(code, cause)
  inv,      \* the CallTool invocations, by the slot the transport gave each
  net,      \* per invocation, the upstream requests it has issued so far
  wire,     \* per invocation, the outcome the upstream gave its request
  tools,    \* the result of the last ListTools request, <<>> before the first
  errlog    \* what console.error has written

vars == <<apiKey, pc, exit, inv, net, wire, tools, errlog>>

ProcessExit(code, cause) == [t |-> "exit", code |-> code, cause |-> cause]

IdleInvocation == [st |-> "idle", name |-> "", args |-> Undefined, response |-> Undefined]

\* ------------------------------------------------------- the tool handlers

\* What a handler does up to its first await: it throws, or it issues a request.
Thrown(error) == [thrown |-> TRUE, error |-> error]
Awaiting(request) == [thrown |-> FALSE, request |-> request]

\* The headers axios.create gives every request of the instance.
AxiosHeaders(key) ==
  [Authorization |-> "DeepL-Auth-Key " \o TemplateStr(key),
   ContentType |-> "application/json"]

\* The body callTranslateText posts: source_lang is spread in under `&&`.
TranslateBody(validatedArgs) ==
  IF Truthy(validatedArgs.source_lang)
  THEN [text |-> validatedArgs.text, target_lang |-> validatedArgs.target_lang,
        source_lang |-> validatedArgs.source_lang]
  ELSE [text |-> validatedArgs.text, target_lang |-> validatedArgs.target_lang]

\* callTranslateText(args) up to the await of axiosInstance.post.
callTranslateText(args, key) ==
  IF TranslateTextIssues(args) # <<>> THEN Thrown(ZodError(TranslateTextIssues(args)))
  ELSE Awaiting([method |-> "POST", url |-> "/v2/translate",
                 headers |-> AxiosHeaders(key),
                 data |-> TranslateBody(TranslateTextInputSchema(args))])

\* The query parameters callListLanguages passes: type only under `if`.
LanguagesParams(validatedArgs) ==
  IF Truthy(validatedArgs.type) THEN [type |-> validatedArgs.type] ELSE <<>>

\* callListLanguages(args) up to the await of axiosInstance.get.
callListLanguages(args, key) ==
  IF ListLanguagesIssues(args) # <<>> THEN Thrown(ZodError(ListLanguagesIssues(args)))
  ELSE Awaiting([method |-> "GET", url |-> "/v2/languages",
                 headers |-> AxiosHeaders(key),
                 params |-> LanguagesParams(ListLanguagesInputSchema(args))])

\* How the CallTool handler's own promise settles: with a tool response, or,
\* were an error to escape the handler, rejected with that raw error.
Returned(response) == [st |-> "done", response |-> response]
Escaped(error) == [st |-> "rejected", response |-> Undefined]

\* A catch clause that handles protocol errors only and rethrows the rest.
CaughtMcpErrorOnly(error) ==
  IF error.kind = "McpError" THEN Returned(handleToolError(error)) ELSE Escaped(error)

\* The catch clause of the CallTool handler.
Caught(error) == Returned(handleToolError(error))

\* A switch that also answers to the short name 'translate'.
DispatchWithAlias(name, args, key) ==
  CASE name \in {"translate_text", "translate"} -> callTranslateText(args, key)
    [] name = "list_languages" -> callListLanguages(args, key)
    [] OTHER -> Thrown(McpError("MethodNotFound",
                                "Tool '" \o name \o "' not found.", Undefined))

\* The switch of the CallTool handler.
Dispatch(name, args, key) ==
  CASE name = "translate_text" -> callTranslateText(args, key)
    [] name = "list_languages" -> callListLanguages(args, key)
    [] OTHER -> Thrown(McpError("MethodNotFound",
                                "Tool '" \o name \o "' not found.", Undefined))

KTranslations ==
  <<"t", "r", "a", "n", "s", "l", "a", "t", "i", "o", "n", "s">>

\* The value a tool serialises from the upstream response body.
ResultValue(name, data) ==
  IF name = "translate_text" THEN Prop(data, KTranslations) ELSE data

\* The response a tool builds from a resolved upstream call.
SuccessResponse(name, data) ==
  [content |-> <<[type |-> "text",
                  text |-> JSONStringify(ResultValue(name, data), 2),
                  mimeType |-> "application/json"]>>]

\* The tools array of the ListTools handler.
ToolCatalog ==
  <<[name |-> "translate_text",
     properties |-> {"text", "target_lang", "source_lang"},
     required |-> <<"text", "target_lang">>],
    [name |-> "list_languages",
     properties |-> {"type"},
     required |-> <<>>]>>

\* ------------------------------------------------------------ the upstream

KDetected ==
  <<"d", "e", "t", "e", "c", "t", "e", "d", "_", "s", "o", "u", "r", "c", "e",
    "_", "l", "a", "n", "g", "u", "a", "g", "e">>
KText == <<"t", "e", "x", "t">>
KLanguage == <<"l", "a", "n", "g", "u", "a", "g", "e">>
KName == <<"n", "a", "m", "e">>
KFormality ==
  <<"s", "u", "p", "p", "o", "r", "t", "s", "_", "f", "o", "r", "m", "a", "l",
    "i", "t", "y">>

\* interface DeepLTranslation
DeepLTranslation(lang, text) ==
  JObj(<< <<KDetected, JStr(lang)>>, <<KText, JStr(text)>> >>)

\* interface DeepLLanguage
DeepLLanguage(language, name, formality) ==
  JObj(<< <<KLanguage, JStr(language)>>, <<KName, JStr(name)>>,
          <<KFormality, JBool(formality)>> >>)

\* How the promise of axiosInstance.post / .get settles.
Resolved(data) == [ok |-> TRUE, status |-> 200, data |-> data]
Rejected(error) == [ok |-> FALSE, error |-> error]

\* axios rejects a response whose status is outside 200..299.
HttpFailure(status, data) ==
  Rejected(AxiosError("Request failed with status code " \o ToString(status),
                      HttpResponse(status, data)))

\* No response arrived at all.
NetworkFailure == Rejected(AxiosError("Network Error", Undefined))

SeqsOfLen(S, n) == [1..n -> S]

\* The translations the upstream may answer with: one per posted string.
TranslationChoices ==
  {DeepLTranslation(l, x) :
     l \in {<<"E", "N">>, <<"F", "R">>},
     x \in {<<"H", "i">>, <<"\"", "a", "\\">>, <<"\n", ",", "]">>}}

\* The language lists the upstream may answer with.
LanguageLists ==
  LET en == DeepLLanguage(<<"E", "N">>, <<"E", "n", "g">>, FALSE)
      de == DeepLLanguage(<<"D", "E">>, <<"\"", "D", "\"">>, TRUE)
  IN {<<>>, <<en>>, <<en, de>>, <<de, en>>}

\* The statuses and bodies of the upstream's error responses.
ErrorStatuses == {304, 400, 401, 403, 499, 500, 503}
ErrorDatas ==
  {Undefined, Str(""), ErrorBody(Undefined), ErrorBody(Str("Quota exceeded"))}

\* Every outcome the upstream may give a request: an error response, no
\* response, or a success whose body has the shape of the upstream's
\* interface ({translations: [...]} with one entry per posted string, or an
\* array of languages). The tools do not check that shape themselves.
Outcomes(request) ==
  {HttpFailure(s, d) : s \in ErrorStatuses, d \in ErrorDatas}
  \cup {NetworkFailure}
  \cup (IF request.method = "POST"
        THEN {Resolved(JObj(<< <<KTranslations, JArr(ts)>> >>)) :
                ts \in SeqsOfLen(TranslationChoices, Len(request.data.text.v))}
        ELSE {Resolved(JArr(ls)) : ls \in LanguageLists})

\* A few of them, for the runs with several invocations in flight.
FewOutcomes(request) ==
  {HttpFailure(403, ErrorBody(Str("Quota exceeded"))), NetworkFailure}
  \cup (IF request.method = "POST"
        THEN {Resolved(JObj(<< <<KTranslations,
                 JArr([k \in 1..Len(request.data.text.v) |->
                        DeepLTranslation(<<"E", "N">>, <<"H", "i">>)])>> >>))}
        ELSE {Resolved(JArr(<<DeepLLanguage(<<"E", "N">>, <<"E", "n", "g">>, FALSE)>>))})

\* ------------------------------------------------------------ the callers

ToolNames == {"translate_text", "list_languages", "Translate_Text", "translate"}

TextElements == {Str("Hello"), Str("Bye"), Num(7)}
TextValues ==
  {Undefined, Str("Hello")}
  \cup {Arr(s) : s \in UNION {SeqsOfLen(TextElements, n) : n \in 0..MaxTextLen}}
TargetValues == {Undefined, Str("DE"), Num(7)}
SourceValues == {Undefined, Str(""), Str("EN"), Num(7)}
TypeValues == {Undefined, Null, Str("source"), Str("target"), Str("all"), Str("")}
ExtraValues == {Undefined, Str("x")}

\* Every argument payload a caller may send: none at all, the translate
\* shapes, the same with further keys, and the list-languages shapes.
AllArgs ==
  {Undefined}
  \cup {Obj(x, tl, sl, Undefined, Undefined) :
          x \in TextValues, tl \in TargetValues, sl \in SourceValues}
  \cup {Obj(Arr(<<Str("Bye"), Str("Hello")>>), Str("DE"), sl, Str("source"), Str("x")) :
          sl \in SourceValues}
  \cup {Obj(Undefined, Undefined, Undefined, ty, e) :
          ty \in TypeValues, e \in ExtraValues}

\* A few of them, for the runs with several invocations in flight.
FewArgs ==
  {Undefined,
   Obj(Undefined, Undefined, Undefined, Undefined, Undefined),
   Obj(Arr(<<Str("Hello"), Str("Bye")>>), Str("DE"), Str("EN"), Undefined, Undefined)}
FewNames == {"translate_text", "list_languages", "translate"}

\* ------------------------------------------------------------------ actions

Init ==
  /\ apiKey \in {Undefined, Str(""), Str("secret")}
  /\ pc = "boot"
  /\ exit = Undefined
  /\ inv = [i \in 1..MaxInv |-> IdleInvocation]
  /\ net = [i \in 1..MaxInv |-> <<>>]
  /\ wire = [i \in 1..MaxInv |-> Undefined]
  /\ tools = <<>>
  /\ errlog = {}

\* The top level without the credential check.
StartupUnchecked ==
  /\ pc = "boot"
  /\ pc' = "connecting"
  /\ UNCHANGED <<apiKey, exit, inv, net, wire, tools, errlog>>

\* The module's top level: the credential check, new DeepLServer(), run().
Startup ==
  /\ pc = "boot"
  /\ IF ~Truthy(apiKey)
     THEN /\ pc' = "exited"
          /\ exit' = ProcessExit(1, "missing_credential")
          /\ errlog' = errlog \cup {"DEEPL_API_KEY environment variable is not set."}
     ELSE /\ pc' = "connecting"
          /\ UNCHANGED <<exit, errlog>>
  /\ UNCHANGED <<apiKey, inv, net, wire, tools>>

\* run(): server.connect(transport) resolves.
Connected ==
  /\ pc = "connecting"
  /\ pc' = "serving"
  /\ errlog' = errlog \cup {"DeepL MCP Server started and listening via stdio."}
  /\ UNCHANGED <<apiKey, exit, inv, net, wire, tools>>

\* run(): server.connect(transport) rejects; the catch of run() exits.
ConnectFailed ==
  /\ pc = "connecting"
  /\ pc' = "exited"
  /\ exit' = ProcessExit(1, "start_failed")
  /\ errlog' = errlog \cup {"Failed to start DeepL MCP Server:"}
  /\ UNCHANGED <<apiKey, inv, net, wire, tools>>

\* An onerror that logs the error and then exits.
ServerErrorFatal ==
  /\ pc \in {"connecting", "serving", "closing"}
  /\ errlog' = errlog \cup {"[MCP Server Error]"}
  /\ pc' = "exited"
  /\ exit' = ProcessExit(1, "server_error")
  /\ UNCHANGED <<apiKey, inv, net, wire, tools>>

\* server.onerror: the error is logged, nothing else.
ServerError ==
  /\ pc \in {"connecting", "serving", "closing"}
  /\ errlog' = errlog \cup {"[MCP Server Error]"}
  /\ UNCHANGED <<apiKey, pc, exit, inv, net, wire, tools>>

\* The SIGINT listener up to its await of server.close().
Sigint ==
  /\ pc \in {"connecting", "serving"}
  /\ pc' = "closing"
  /\ errlog' = errlog \cup {"Received SIGINT, shutting down server..."}
  /\ UNCHANGED <<apiKey, exit, inv, net, wire, tools>>

\* The SIGINT listener after server.close() resolved.
Closed ==
  /\ pc = "closing"
  /\ pc' = "exited"
  /\ exit' = ProcessExit(0, "sigint")
  /\ UNCHANGED <<apiKey, inv, net, wire, tools, errlog>>

\* server.close() rejected: the listener's promise rejects unhandled, which
\* ends a Node process with code 1.
CloseFailed ==
  /\ pc = "closing"
  /\ pc' = "exited"
  /\ exit' = ProcessExit(1, "close_rejected")
  /\ UNCHANGED <<apiKey, inv, net, wire, tools, errlog>>

\* The ListTools handler.
ListTools ==
  /\ pc = "serving"
  /\ tools' = ToolCatalog
  /\ UNCHANGED <<apiKey, pc, exit, inv, net, wire, errlog>>

\* The CallTool handler up to the tool's await: the switch, the validation,
\* the request issued, and the catch around them.
CallTool(i, name, args) ==
  /\ pc = "serving"
  /\ inv[i].st = "idle"
  /\ LET r == Dispatch(name, args, apiKey) IN
     IF r.thrown
     THEN /\ inv' = [inv EXCEPT ![i] = [st |-> Caught(r.error).st, name |-> name,
                                        args |-> args,
                                        response |-> Caught(r.error).response]]
          /\ net' = net
     ELSE /\ inv' = [inv EXCEPT ![i] = [st |-> "awaiting", name |-> name,
                                        args |-> args, response |-> Undefined]]
          /\ net' = [net EXCEPT ![i] = Append(@, r.request)]
  /\ UNCHANGED <<apiKey, pc, exit, wire, tools, errlog>>

\* The upstream settles the request of invocation i.
UpstreamRespond(i, outcome) ==
  /\ net[i] # <<>>
  /\ wire[i] = Undefined
  /\ wire' = [wire EXCEPT ![i] = outcome]
  /\ UNCHANGED <<apiKey, pc, exit, inv, net, tools, errlog>>

\* A continuation that posts the request again when the call was rejected.
ResumeRetrying(i) ==
  /\ pc \in {"serving", "closing"}
  /\ inv[i].st = "awaiting"
  /\ wire[i] # Undefined
  /\ IF wire[i].ok
     THEN /\ inv' = [inv EXCEPT ![i].st = "done",
                                ![i].response =
                                  SuccessResponse(inv[i].name, wire[i].data)]
          /\ UNCHANGED <<net, wire>>
     ELSE /\ Len(net[i]) = 1
          /\ net' = [net EXCEPT ![i] = Append(@, @[1])]
          /\ wire' = [wire EXCEPT ![i] = Undefined]
          /\ UNCHANGED inv
  /\ UNCHANGED <<apiKey, pc, exit, tools, errlog>>

\* The CallTool handler after the tool's await: the response is built from
\* the resolved call, or the catch handles the rejection.
Resume(i) ==
  /\ pc \in {"serving", "closing"}
  /\ inv[i].st = "awaiting"
  /\ wire[i] # Undefined
  /\ LET settled == IF wire[i].ok
                    THEN Returned(SuccessResponse(inv[i].name, wire[i].data))
                    ELSE Caught(wire[i].error)
     IN inv' = [inv EXCEPT ![i].st = settled.st, ![i].response = settled.response]
  /\ UNCHANGED <<apiKey, pc, exit, net, wire, tools, errlog>>

\* The start of the process.
Boot ==
  \/ Startup
  \/ Connected
  \/ ConnectFailed

\* Everything but the tool calls.
Lifecycle ==
  \/ Boot
  \/ ServerError
  \/ Sigint
  \/ Closed
  \/ CloseFailed
  \/ ListTools

\* Several invocations in flight, a few payloads and outcomes.
Next ==
  \/ Lifecycle
  \/ \E i \in 1..MaxInv, name \in FewNames, args \in FewArgs : CallTool(i, name, args)
  \/ \E i \in 1..MaxInv :
       /\ net[i] # <<>>
       /\ \E o \in FewOutcomes(net[i][1]) : UpstreamRespond(i, o)
  \/ \E i \in 1..MaxInv : Resume(i)

Spec == Init /\ [][Next]_vars

\* One invocation on a started server, every payload and every outcome.
NextCall ==
  \/ Boot
  \/ \E name \in ToolNames, args \in AllArgs : CallTool(1, name, args)
  \/ /\ net[1] # <<>>
     /\ \E o \in Outcomes(net[1][1]) : UpstreamRespond(1, o)
  \/ Resume(1)

SpecCall == Init /\ [][NextCall]_vars

\* ------------------------------------------------------------ the claims

Invs == 1..MaxInv

IsError(r) == "isError" \in DOMAIN r /\ r.isError

RECURSIVE RequestsUpTo(_)
\* The number of upstream requests the invocations 1..n have issued.
RequestsUpTo(n) == IF n = 0 THEN 0 ELSE Len(net[n]) + RequestsUpTo(n - 1)

Registered(name) == name \in {"translate_text", "list_languages"}

\* The TranslateRequest shape: text a non-empty sequence of strings,
\* target_lang a string, source_lang a string when present.
ValidTranslatePayload(args) ==
  /\ args.t = "object"
  /\ args.text.t = "array"
  /\ Len(args.text.v) >= 1
  /\ \A k \in 1..Len(args.text.v) : args.text.v[k].t = "string"
  /\ args.target_lang.t = "string"
  /\ args.source_lang.t \in {"undefined", "string"}

\* The LanguageListRequest shape: type, when present, is source or target.
ValidLanguagesPayload(args) ==
  /\ args.t = "object"
  /\ \/ args.type.t = "undefined"
     \/ args.type.t = "string" /\ args.type.v \in {"source", "target"}

PassesValidation(name, args) ==
  \/ name = "translate_text" /\ ValidTranslatePayload(args)
  \/ name = "list_languages" /\ ValidLanguagesPayload(args)

\* The text of an error response: the message, then the details if any.
ErrorText(message, data) ==
  "Error: " \o message
  \o (IF Truthy(data) THEN "\nDetails: " \o CompactJSON(data) ELSE "")

\* A response with one text content block.
IsToolResponse(r) ==
  /\ "content" \in DOMAIN r
  /\ Len(r.content) = 1
  /\ r.content[1].type = "text"

\* C1: whatever the tool name, the argument payload (an absent one included)
\* and the upstream outcome, the CallTool handler settles with a tool
\* response and never with a raw error; the response has isError = true
\* when the handler failed (unknown name, validation failure, upstream
\* failure) and carries no isError when the call succeeded.
C1_AlwaysAToolResponse ==
  \A i \in Invs :
    /\ inv[i].st # "rejected"
    /\ inv[i].st = "done" =>
         LET failed == \/ ~PassesValidation(inv[i].name, inv[i].args)
                       \/ wire[i] # Undefined /\ ~wire[i].ok
         IN /\ IsToolResponse(inv[i].response)
            /\ failed => IsError(inv[i].response)
            /\ ~failed => "isError" \notin DOMAIN inv[i].response

\* A valid translate_text call whose request got no response at all was
\* answered with an error response.
C1_Witness ==
  /\ inv[1].st = "done"
  /\ inv[1].name = "translate_text"
  /\ wire[1] = NetworkFailure
  /\ IsError(inv[1].response)
  /\ inv[1].response.errorCode = "InternalError"

\* C2: also with several invocations in flight at once, an invocation of a
\* registered tool whose arguments pass validation issues exactly one
\* upstream request and any other invocation none, a failed call is not
\* tried again, so the requests issued are as many as the invocations that
\* passed validation; and each response is built from the invocation's own
\* arguments and its own upstream reply.
C2_OneRequestPerValidInvocation ==
  /\ RequestsUpTo(MaxInv) =
       Cardinality({i \in Invs : /\ inv[i].st # "idle"
                                 /\ PassesValidation(inv[i].name, inv[i].args)})
  /\ \A i \in Invs :
       /\ Len(net[i]) =
            (IF inv[i].st # "idle" /\ PassesValidation(inv[i].name, inv[i].args)
             THEN 1 ELSE 0)
       /\ \A k \in 1..Len(net[i]) :
            net[i][k] = Dispatch(inv[i].name, inv[i].args, apiKey).request
       /\ (inv[i].st = "done" /\ net[i] # <<>>) =>
            /\ wire[i] # Undefined
            /\ inv[i].response =
                 (IF wire[i].ok THEN SuccessResponse(inv[i].name, wire[i].data)
                  ELSE handleToolError(wire[i].error))

\* Two invocations were in flight together; the first failed upstream and
\* has been answered while the second still waits.
C2_Witness ==
  /\ Len(net[1]) = 1
  /\ Len(net[2]) = 1
  /\ inv[1].st = "done"
  /\ wire[1] # Undefined
  /\ ~wire[1].ok
  /\ inv[2].st = "awaiting"

\* C3: for every valid translate_text payload the body posted to
\* /v2/translate holds exactly the given text and target_lang, holds
\* source_lang if and only if the arguments gave one (the empty string
\* included), and holds no other key of the payload.
C3_BodyIsTheRequest ==
  \A i \in Invs :
    (/\ inv[i].st # "idle"
     /\ inv[i].name = "translate_text"
     /\ ValidTranslatePayload(inv[i].args)) =>
      /\ net[i] # <<>>
      /\ \A k \in 1..Len(net[i]) :
           LET d == net[i][k].data IN
           /\ net[i][k].method = "POST"
           /\ net[i][k].url = "/v2/translate"
           /\ DOMAIN d \subseteq {"text", "target_lang", "source_lang"}
           /\ d.text = inv[i].args.text
           /\ d.target_lang = inv[i].args.target_lang
           /\ ("source_lang" \in DOMAIN d) <=> (inv[i].args.source_lang.t = "string")
           /\ ("source_lang" \in DOMAIN d) => d.source_lang = inv[i].args.source_lang

\* C4: a translate_text payload that violates the TranslateRequest shape
\* (the payload itself absent included) is answered with an error response
\* of code InvalidParams and message "Input validation failed", and no
\* upstream call is issued for it.
C4_InvalidTranslateRejected ==
  \A i \in Invs :
    (/\ inv[i].st # "idle"
     /\ inv[i].name = "translate_text"
     /\ ~ValidTranslatePayload(inv[i].args)) =>
      /\ inv[i].st = "done"
      /\ net[i] = <<>>
      /\ wire[i] = Undefined
      /\ IsError(inv[i].response)
      /\ inv[i].response.errorCode = "InvalidParams"
      /\ inv[i].response.content[1].text =
           ErrorText("Input validation failed",
                     Arr(TranslateTextIssues(inv[i].args)))

\* translate_text was called with an empty text array.
C4_Witness ==
  /\ inv[1].st = "done"
  /\ inv[1].name = "translate_text"
  /\ inv[1].args.t = "object"
  /\ inv[1].args.text = Arr(<<>>)
  /\ inv[1].args.target_lang = Str("DE")
  /\ inv[1].response.errorCode = "InvalidParams"

\* C5: a call whose name is not exactly 'translate_text' or 'list_languages'
\* is answered, whatever the payload, with an error response of code
\* MethodNotFound, and no upstream call is issued for it.
C5_UnknownToolNotFound ==
  \A i \in Invs :
    (inv[i].st # "idle" /\ ~Registered(inv[i].name)) =>
      /\ inv[i].st = "done"
      /\ net[i] = <<>>
      /\ wire[i] = Undefined
      /\ IsError(inv[i].response)
      /\ inv[i].response.errorCode = "MethodNotFound"

\* 'translate' was called with a payload translate_text would accept.
C5_Witness ==
  /\ inv[1].st = "done"
  /\ inv[1].name = "translate"
  /\ ValidTranslatePayload(inv[1].args)
  /\ inv[1].response.errorCode = "MethodNotFound"
  /\ net[1] = <<>>

\* What the upstream said of its failure, else what the transport said.
FailureMessage(error) ==
  LET data == error.response.data IN
  IF data.t = "object" /\ data.message.t = "string" /\ data.message.v # ""
  THEN data.message.v
  ELSE error.message

\* C6: for an upstream HTTP failure the code of the response is decided by
\* the status alone: 400 gives InvalidParams, 401 to 499 InvalidRequest,
\* 500 and above InternalError; and the message carries the status and the
\* upstream's message, or the transport's when the body has none.
C6_CodeByStatus ==
  \A i \in Invs :
    (/\ inv[i].st = "done"
     /\ wire[i] # Undefined
     /\ ~wire[i].ok
     /\ wire[i].error.response # Undefined) =>
      LET status == wire[i].error.response.status
          r == inv[i].response
      IN /\ IsError(r)
         /\ status = 400 => r.errorCode = "InvalidParams"
         /\ (status >= 401 /\ status <= 499) => r.errorCode = "InvalidRequest"
         /\ status >= 500 => r.errorCode = "InternalError"
         /\ r.content[1].text =
              ErrorText("DeepL API Error (" \o ToString(status) \o "): "
                          \o FailureMessage(wire[i].error),
                        wire[i].error.response.data)

\* A 401 whose body has no message was answered.
C6_Witness ==
  /\ inv[1].st = "done"
  /\ wire[1] = HttpFailure(401, ErrorBody(Undefined))
  /\ inv[1].response.errorCode = "InvalidRequest"

\* C7: list_languages with type "source" or "target" issues one GET to
\* /v2/languages carrying exactly that type; with no arguments (an empty
\* mapping, or no payload at all) it issues one GET with no query parameter;
\* any other type is answered InvalidParams with no upstream call.
C7_LanguagesQuery ==
  \A i \in Invs :
    (inv[i].st # "idle" /\ inv[i].name = "list_languages") =>
      LET args == inv[i].args
          filter == IF args.t = "object" THEN args.type ELSE Undefined
      IN IF filter.t = "undefined" \/ filter \in {Str("source"), Str("target")}
         THEN /\ Len(net[i]) = 1
              /\ \A k \in 1..Len(net[i]) :
                   /\ net[i][k].method = "GET"
                   /\ net[i][k].url = "/v2/languages"
                   /\ net[i][k].params =
                        (IF filter.t = "undefined" THEN <<>> ELSE [type |-> filter])
              /\ (inv[i].st = "done" /\ wire[i].ok) => ~IsError(inv[i].response)
         ELSE /\ inv[i].st = "done"
              /\ net[i] = <<>>
              /\ inv[i].response.errorCode = "InvalidParams"

C9_NoServiceWithoutCredential ==
  apiKey = Undefined =>
    /\ pc \in {"boot", "exited"}
    /\ pc = "exited" => (exit # Undefined /\ exit.code # 0)
    /\ tools = <<>>
    /\ \A i \in Invs : inv[i].st = "idle" /\ net[i] = <<>>

\* The process started without the credential and has exited with code 1.
C9_Witness ==
  /\ apiKey = Undefined
  /\ pc = "exited"
  /\ exit = ProcessExit(1, "missing_credential")

\* C10 as stated: the one exit an error causes is the exit for the missing
\* credential; any other error leaves the process running.
C10_OnlyCredentialExit ==
  (exit # Undefined /\ exit.code # 0) => exit.cause = "missing_credential"

\* C10 as the code has it: an error ends the process only in the top-level
\* credential check, in the catch of run() when the server fails to start,
\* or when server.close() rejects during the SIGINT shutdown; a failed tool
\* call, a failed upstream call or an error reported to onerror does not.
C10_ErrorExitsOnlyAtStartOrShutdown ==
  [][(exit = Undefined /\ exit' # Undefined /\ exit'.code # 0) =>
       \/ pc = "boot" /\ ~Truthy(apiKey)
       \/ pc = "connecting"
       \/ pc = "closing"]_vars

\* A tool call failed and onerror reported an error; the process still serves.
C10_Witness ==
  /\ pc = "serving"
  /\ exit = Undefined
  /\ "[MCP Server Error]" \in errlog
  /\ \E i \in Invs : inv[i].st = "done" /\ IsError(inv[i].response)

====
